---- MODULE Spec2Model ----
(***************************************************************************)
(* Model of the code execution service, backend/core/code_executor.py      *)
(* (class CodeExecutor): the language registry, the static validator, and  *)
(* execute_code with its workspace, compile and run phases.                *)
(*                                                                         *)
(* Text (source code, language names) is a sequence of one-character       *)
(* strings, so that lower(), the regular expressions and the substring     *)
(* tests of the validator are computed character by character.             *)
(***************************************************************************)
EXTENDS Integers, Sequences, FiniteSets, TLC

\* ------------------------------------------------------------------ bounds
\* Number of caller threads that may call execute_code.
NumCalls == 2
\* Number of hash seeds the interpreter may have started with.
NumHashSeeds == 2
\* Number of directory names tempfile.mkdtemp can draw from.
MaxDirs == 2
\* The longest time a child may take and still finish, in clock ticks; the
\* configured wall-clock timeout (self.timeout) is this many ticks.
TimeoutTicks == 2
\* The number of requests a key is allowed per window (RATE_LIMIT, 100 in the
\* source), scaled down.
RateLimitBound == 2
\* The length of the limiter's window (60 seconds in the source), in clock ticks.
WindowTicks == 2
\* The last tick of the wall clock.
MaxClock == 5

Calls == 1..NumCalls
DirNames == 1..MaxDirs

\* -------------------------------------------------------------------- text
UpperAlphabet == <<"A","B","C","D","E","F","G","H","I","J","K","L","M",
                   "N","O","P","Q","R","S","T","U","V","W","X","Y","Z">>
LowerAlphabet == <<"a","b","c","d","e","f","g","h","i","j","k","l","m",
                   "n","o","p","q","r","s","t","u","v","w","x","y","z">>
Digits == {"0","1","2","3","4","5","6","7","8","9"}

Range(f) == {f[i] : i \in DOMAIN f}

\* str.lower() on one character.
LowerChar(ch) ==
    IF ch \in Range(UpperAlphabet)
    THEN LowerAlphabet[CHOOSE i \in DOMAIN UpperAlphabet : UpperAlphabet[i] = ch]
    ELSE ch

\* str.lower(): every character lowered, the length kept.
Lower(s) == [i \in DOMAIN s |-> LowerChar(s[i])]

\* The string a character sequence spells.
RECURSIVE Str(_)
Str(s) == IF s = <<>> THEN "" ELSE s[1] \o Str(Tail(s))

\* The regular expression classes \w and \s.
IsWordChar(ch) == ch \in Range(UpperAlphabet) \cup Range(LowerAlphabet) \cup Digits \cup {"_"}
IsSpaceChar(ch) == ch \in {" ", "\n", "\t"}
\* The class [\w.] of the Java pattern and [\w./] of the #include pattern.
IsDottedChar(ch) == IsWordChar(ch) \/ ch = "."
IsPathChar(ch) == IsWordChar(ch) \/ ch \in {".", "/"}

\* s has the literal lit at position i.
LitAt(s, i, lit) ==
    /\ i >= 1
    /\ i + Len(lit) - 1 <= Len(s)
    /\ SubSeq(s, i, i + Len(lit) - 1) = lit

\* Python's `sub in s` on strings.
Contains(s, sub) == \E i \in 1..(Len(s) + 1) : LitAt(s, i, sub)

\* The end (exclusive) of the longest run of characters of a class starting at i:
\* what a greedy X+ consumes; equal to i when the run is empty.
SpaceRunEnd(s, i) ==
    CHOOSE j \in i..(Len(s) + 1) :
        /\ \A k \in i..(j - 1) : IsSpaceChar(s[k])
        /\ (j <= Len(s) => ~IsSpaceChar(s[j]))
WordRunEnd(s, i) ==
    CHOOSE j \in i..(Len(s) + 1) :
        /\ \A k \in i..(j - 1) : IsWordChar(s[k])
        /\ (j <= Len(s) => ~IsWordChar(s[j]))
DottedRunEnd(s, i) ==
    CHOOSE j \in i..(Len(s) + 1) :
        /\ \A k \in i..(j - 1) : IsDottedChar(s[k])
        /\ (j <= Len(s) => ~IsDottedChar(s[j]))
PathRunEnd(s, i) ==
    CHOOSE j \in i..(Len(s) + 1) :
        /\ \A k \in i..(j - 1) : IsPathChar(s[k])
        /\ (j <= Len(s) => ~IsPathChar(s[j]))

\* Words used to write source text.
W_import == <<"i","m","p","o","r","t">>
W_from == <<"f","r","o","m">>
W_include == <<"#","i","n","c","l","u","d","e">>
W_public == <<"p","u","b","l","i","c">>
W_class == <<"c","l","a","s","s">>

\* ------------------------------------------------------------------- state
VARIABLES
    language_config,  \* self.language_config, the language registry
    hashSeed,         \* the interpreter's string hash seed: fixes set iteration order
    platform,         \* what the host gives: HAS_RESOURCE, failing setrlimit calls, root
    requests,         \* the codes and language names the callers send
    fs,               \* the temporary directories that exist
    files,            \* the files in the directory this call created
    pc,               \* where each caller is inside execute_code
    args,             \* the arguments of the call in progress
    language,         \* the local `language` after line 171
    temp_dir,         \* the local `temp_dir`
    file_path,        \* the local `file_path`
    start_time,       \* the local `start_time` (None while not assigned)
    now,              \* time.time(), measured from the start of the call
    raised,           \* the exception raised inside the try block, if any
    pending,          \* the value of the return statement waiting for `finally`
    result,           \* what execute_code handed to its caller
    children,         \* the child processes this call has spawned, in order
    trace,            \* the steps this call has taken, in order
    child_fate,       \* what the child about to be spawned will do (see Fates)
    vcall,            \* the last validate_code call: its arguments and result
    rate_limit_store, \* routers/code_execution.py: api key -> [count, reset_time]
    last_cleanup,     \* routers/code_execution.py: when the store was last cleared
    wall_clock,       \* time.time(), in ticks since the router module was imported
    verdict,          \* per api key, the outcome of its last check_rate_limit, and a
                      \* bit that flips with every request of the key
    recent,           \* per api key, the times of its admissions less than a window ago
    locked_until      \* per api key, the reset_time it was last turned away under

\* The state of the router's rate limiter.
limiter == <<rate_limit_store, last_cleanup, wall_clock, verdict, recent, locked_until>>

vars == <<language_config, hashSeed, platform, requests, fs, files, pc, args, language, temp_dir, file_path,
          start_time, now, raised, pending, result, children, trace, child_fate, vcall,
          rate_limit_store, last_cleanup, wall_clock, verdict, recent, locked_until>>

\* Python's None, in the shape of the value it stands in for.
NoneDir == 0
NoneTime == -1
NoneText == <<>>
NoneRecord == [none |-> TRUE]

\* ---------------------------------------------------------------- registry
\* config.get('needs_compile', False) and config['compile_command'] are the
\* fields needs_compile and compile_command; `policy` names the allow-list key
\* the entry carries and `allowed` is its value.
LanguageConfig ==
    [python |-> [extension |-> ".py", command |-> <<"python">>,
                 compile_command |-> <<>>, needs_compile |-> FALSE,
                 policy |-> "allowed_imports",
                 allowed |-> {"math", "random", "datetime", "json", "collections",
                              "itertools", "functools"}],
     javascript |-> [extension |-> ".js", command |-> <<"node">>,
                 compile_command |-> <<>>, needs_compile |-> FALSE,
                 policy |-> "allowed_globals",
                 allowed |-> {"console", "Math", "Date", "JSON", "Array", "Object",
                              "String", "Number"}],
     typescript |-> [extension |-> ".ts", command |-> <<"npx", "ts-node">>,
                 compile_command |-> <<>>, needs_compile |-> FALSE,
                 policy |-> "allowed_globals",
                 allowed |-> {"console", "Math", "Date", "JSON", "Array", "Object",
                              "String", "Number"}],
     java |-> [extension |-> ".java", command |-> <<"java">>,
                 compile_command |-> <<"javac">>, needs_compile |-> TRUE,
                 policy |-> "allowed_packages",
                 allowed |-> {"java.util", "java.lang", "java.math", "java.time"}],
     cpp |-> [extension |-> ".cpp", command |-> <<"./program">>,
                 compile_command |-> <<"g++", "-o", "program">>, needs_compile |-> TRUE,
                 policy |-> "allowed_headers",
                 allowed |-> {"iostream", "string", "vector", "map", "set", "algorithm"}],
     c |-> [extension |-> ".c", command |-> <<"./program">>,
                 compile_command |-> <<"gcc", "-o", "program">>, needs_compile |-> TRUE,
                 policy |-> "allowed_headers",
                 allowed |-> {"stdio.h", "stdlib.h", "string.h", "math.h", "time.h"}],
     go |-> [extension |-> ".go", command |-> <<"go", "run">>,
                 compile_command |-> <<>>, needs_compile |-> FALSE,
                 policy |-> "allowed_packages",
                 allowed |-> {"fmt", "math", "time", "strings", "strconv"}],
     rust |-> [extension |-> ".rs", command |-> <<"./program">>,
                 compile_command |-> <<"rustc", "-o", "program">>, needs_compile |-> TRUE,
                 policy |-> "allowed_crates",
                 allowed |-> {"std"}],
     ruby |-> [extension |-> ".rb", command |-> <<"ruby">>,
                 compile_command |-> <<>>, needs_compile |-> FALSE,
                 policy |-> "allowed_requires",
                 allowed |-> {"json", "time", "math", "set"}],
     php |-> [extension |-> ".php", command |-> <<"php">>,
                 compile_command |-> <<>>, needs_compile |-> FALSE,
                 policy |-> "allowed_extensions",
                 allowed |-> {"json", "date", "math"}]]

\* --------------------------------------------------------------- validator
\* One match of r'import\s+(\w+)|from\s+(\w+)\s+import' at position i:
\* [ok, module, end], module being imp[0] or imp[1].
PyImportAt(s, i) ==
    IF LitAt(s, i, W_import)
    THEN LET a == i + Len(W_import)
             b == SpaceRunEnd(s, a)
             e == WordRunEnd(s, b)
         IN  [ok |-> b > a /\ e > b, module |-> SubSeq(s, b, e - 1), end |-> e]
    ELSE IF LitAt(s, i, W_from)
    THEN LET a == i + Len(W_from)
             b == SpaceRunEnd(s, a)
             e == WordRunEnd(s, b)
             f == SpaceRunEnd(s, e)
         IN  [ok |-> b > a /\ e > b /\ f > e /\ LitAt(s, f, W_import),
              module |-> SubSeq(s, b, e - 1), end |-> f + Len(W_import)]
    ELSE [ok |-> FALSE, module |-> <<>>, end |-> i]

\* One match of r'import\s+([\w.]+)' at position i.
JavaImportAt(s, i) ==
    IF LitAt(s, i, W_import)
    THEN LET a == i + Len(W_import)
             b == SpaceRunEnd(s, a)
             e == DottedRunEnd(s, b)
         IN  [ok |-> b > a /\ e > b, module |-> SubSeq(s, b, e - 1), end |-> e]
    ELSE [ok |-> FALSE, module |-> <<>>, end |-> i]

\* One match of r'#include\s+[<"]([\w./]+)[>"]' at position i.
IncludeAt(s, i) ==
    IF LitAt(s, i, W_include)
    THEN LET a == i + Len(W_include)
             b == SpaceRunEnd(s, a)
             e == PathRunEnd(s, b + 1)
         IN  [ok |-> /\ b > a
                     /\ b <= Len(s) /\ s[b] \in {"<", "\""}
                     /\ e > b + 1
                     /\ e <= Len(s) /\ s[e] \in {">", "\""},
              module |-> SubSeq(s, b + 1, e - 1), end |-> e + 1]
    ELSE [ok |-> FALSE, module |-> <<>>, end |-> i]

\* pattern.findall(code): the groups of the non-overlapping matches, left to right.
RECURSIVE PyImports(_, _)
PyImports(s, i) ==
    IF i > Len(s) THEN <<>>
    ELSE LET m == PyImportAt(s, i)
         IN  IF m.ok THEN <<m.module>> \o PyImports(s, m.end) ELSE PyImports(s, i + 1)
RECURSIVE JavaImports(_, _)
JavaImports(s, i) ==
    IF i > Len(s) THEN <<>>
    ELSE LET m == JavaImportAt(s, i)
         IN  IF m.ok THEN <<m.module>> \o JavaImports(s, m.end) ELSE JavaImports(s, i + 1)
RECURSIVE Includes(_, _)
Includes(s, i) ==
    IF i > Len(s) THEN <<>>
    ELSE LET m == IncludeAt(s, i)
         IN  IF m.ok THEN <<m.module>> \o Includes(s, m.end) ELSE Includes(s, i + 1)

\* The element of a sequence at the least of the given positions, as
\* <<element>>, or <<>> when there is none: where a `for` loop with a `return`
\* in it stops.
FirstAt(seq, hits) ==
    IF hits = {} THEN <<>>
    ELSE <<seq[CHOOSE i \in hits : \A j \in hits : i <= j]>>

\* The order in which a `for` loop walks a set of strings: one listing of the
\* set, rotated by the process's hash seed.
SetOrder(listing) ==
    [i \in DOMAIN listing |-> listing[((i - 1 + hashSeed) % Len(listing)) + 1]]

W_eval == <<"e","v","a","l">>
W_exec == <<"e","x","e","c">>
W_os_system == <<"o","s",".","s","y","s","t","e","m">>
W_subprocess_call == <<"s","u","b","p","r","o","c","e","s","s",".","c","a","l","l">>
W_process == <<"p","r","o","c","e","s","s">>
W_require == <<"r","e","q","u","i","r","e">>
W_Function == <<"F","u","n","c","t","i","o","n">>
dangerous_funcs == <<W_eval, W_exec, W_os_system, W_subprocess_call>>
dangerous_globals == <<W_process, W_require, W_eval, W_Function>>

Valid == [valid |-> TRUE, msg |-> ""]
Invalid(m) == [valid |-> FALSE, msg |-> m]

\* Faulty variant: the deny-list is consulted only for code without imports.
ValidatePythonDenyOnlyWithoutImports(code, config) ==
    LET imports == PyImports(code, 1)
        badImport == FirstAt(imports, {i \in DOMAIN imports : Str(imports[i]) \notin config.allowed})
        badFunc == FirstAt(dangerous_funcs,
                           {i \in DOMAIN dangerous_funcs : Contains(code, dangerous_funcs[i])})
    IN  IF badImport # <<>> THEN Invalid("Import of " \o Str(badImport[1]) \o " not allowed")
        ELSE IF imports = <<>> /\ badFunc # <<>>
        THEN Invalid("Use of " \o Str(badFunc[1]) \o " not allowed")
        ELSE Valid

\* The python branch of _validate_code.
ValidatePython(code, config) ==
    LET imports == PyImports(code, 1)
        funcs == SetOrder(dangerous_funcs)
        badImport == FirstAt(imports, {i \in DOMAIN imports : Str(imports[i]) \notin config.allowed})
        badFunc == FirstAt(funcs, {i \in DOMAIN funcs : Contains(code, funcs[i])})
    IN  IF badImport # <<>> THEN Invalid("Import of " \o Str(badImport[1]) \o " not allowed")
        ELSE IF badFunc # <<>> THEN Invalid("Use of " \o Str(badFunc[1]) \o " not allowed")
        ELSE Valid

\* The javascript/typescript branch.
ValidateJs(code) ==
    LET globals == SetOrder(dangerous_globals)
        badGlobal == FirstAt(globals, {i \in DOMAIN globals : Contains(code, globals[i])})
    IN  IF badGlobal # <<>> THEN Invalid("Use of " \o Str(badGlobal[1]) \o " not allowed")
        ELSE Valid

\* imp.startswith(pkg) for some allowed package; pkg ranges over strings, so the
\* test is made on the spelled strings' characters.
AllowedJavaImport(imp, config) ==
    \E n \in 1..Len(imp) : Str(SubSeq(imp, 1, n)) \in config.allowed

\* The java branch.
ValidateJava(code, config) ==
    LET imports == JavaImports(code, 1)
        badImport == FirstAt(imports, {i \in DOMAIN imports : ~AllowedJavaImport(imports[i], config)})
    IN  IF badImport # <<>> THEN Invalid("Import of " \o Str(badImport[1]) \o " not allowed")
        ELSE Valid

\* The cpp/c branch.
ValidateC(code, config) ==
    LET includes == Includes(code, 1)
        badInclude == FirstAt(includes, {i \in DOMAIN includes : Str(includes[i]) \notin config.allowed})
    IN  IF badInclude # <<>> THEN Invalid("Include of " \o Str(badInclude[1]) \o " not allowed")
        ELSE Valid

\* _validate_code(code, language): the language is used as given; a name that is
\* not a key raises KeyError inside the try block and comes back as invalid.
_validate_code(code, lang) ==
    LET name == Str(lang)
    IN  IF name \notin DOMAIN language_config
        THEN Invalid("Validation error: '" \o name \o "'")
        ELSE LET config == language_config[name]
             IN  IF name = "python" THEN ValidatePython(code, config)
                 ELSE IF name \in {"javascript", "typescript"} THEN ValidateJs(code)
                 ELSE IF name = "java" THEN ValidateJava(code, config)
                 ELSE IF name \in {"cpp", "c"} THEN ValidateC(code, config)
                 ELSE Valid

\* ------------------------------------------------------------------ inputs
W_python == <<"p","y","t","h","o","n">>
W_Python == <<"P","y","t","h","o","n">>
W_javascript == <<"j","a","v","a","s","c","r","i","p","t">>
W_java == <<"j","a","v","a">>
W_cpp == <<"c","p","p">>
W_CPP == <<"C","P","P">>
W_cobol == <<"c","o","b","o","l">>
\* The language names callers pass.
LanguageNames == {W_python, W_Python, W_javascript, W_java, W_cpp, W_CPP, W_cobol}

\* print(1)
Code_print == <<"p","r","i","n","t","(","1",")">>
\* import os
Code_import_os == W_import \o <<" ","o","s">>
\* eval(exec)
Code_eval_exec == W_eval \o <<"(">> \o W_exec \o <<")">>
\* public class Main
Code_public_class == W_public \o <<" ">> \o W_class \o <<" ","M","a","i","n">>
\* #include <unistd.h>
Code_include_unistd == W_include \o <<" ","<","u","n","i","s","t","d",".","h",">">>
\* public class A, then public class B a line later
Code_two_classes == W_public \o <<" ">> \o W_class \o <<" ","A","\n">> \o
                    W_public \o <<" "," ">> \o W_class \o <<" ","B","_","2","{","}">>
\* The source texts callers submit.
Codes == {Code_print, Code_import_os, Code_eval_exec, Code_public_class, Code_include_unistd}

\* The ten names of the registry, and programs that name modules, headers,
\* packages, crates and extensions in the ways their languages write them.
W_typescript == <<"t","y","p","e","s","c","r","i","p","t">>
W_c == <<"c">>
W_go == <<"g","o">>
W_rust == <<"r","u","s","t">>
W_ruby == <<"r","u","b","y">>
W_php == <<"p","h","p">>
RegistryNames ==
    {W_python, W_javascript, W_typescript, W_java, W_cpp, W_c, W_go, W_rust, W_ruby, W_php}
\* import math
Code_import_math == <<"i","m","p","o","r","t"," ","m","a","t","h">>
\* import math, os
Code_import_math_os == <<"i","m","p","o","r","t"," ","m","a","t","h",","," ","o","s">>
\* from os import path
Code_from_os == <<"f","r","o","m"," ","o","s"," ","i","m","p","o","r","t"," ","p","a","t","h">>
\* #include <stdio.h>
Code_include_stdio == <<"#","i","n","c","l","u","d","e"," ","<","s","t","d","i","o",".","h",">">>
\* #include<unistd.h>
Code_include_unistd_tight == <<"#","i","n","c","l","u","d","e","<","u","n","i","s","t","d",".","h",">">>
\* import java.io.File;
Code_import_java_io == <<"i","m","p","o","r","t"," ","j","a","v","a",".","i","o",".","F","i","l","e",";">>
\* import java.util.List;
Code_import_java_util == <<"i","m","p","o","r","t"," ","j","a","v","a",".","u","t","i","l",".","L","i","s","t",";">>
\* import "os"
Code_go_import_os == <<"i","m","p","o","r","t"," ","\"","o","s","\"">>
\* require 'socket'
Code_require_socket == <<"r","e","q","u","i","r","e"," ","'","s","o","c","k","e","t","'">>
\* use libc::c_int;
Code_use_libc == <<"u","s","e"," ","l","i","b","c",":",":","c","_","i","n","t",";">>
\* dl('sockets');
Code_dl_sockets == <<"d","l","(","'","s","o","c","k","e","t","s","'",")",";">>
ScreeningCodes ==
    {Code_print, Code_import_os, Code_include_unistd,
     Code_import_math,
     Code_import_math_os,
     Code_from_os,
     Code_include_stdio,
     Code_include_unistd_tight,
     Code_import_java_io,
     Code_import_java_util,
     Code_go_import_os,
     Code_require_socket,
     Code_use_libc,
     Code_dl_sockets}

\* Programs that use the names on the deny-lists, with and without imports.
\* eval(1)
Code_eval == <<"e","v","a","l","(","1",")">>
\* exec(1)
Code_exec == <<"e","x","e","c","(","1",")">>
\* os.system(1)
Code_os_system == <<"o","s",".","s","y","s","t","e","m","(","1",")">>
\* subprocess.call(1)
Code_subprocess_call == <<"s","u","b","p","r","o","c","e","s","s",".","c","a","l","l","(","1",")">>
\* import math\nexec(1)
Code_math_exec == <<"i","m","p","o","r","t"," ","m","a","t","h","\n","e","x","e","c","(","1",")">>
\* import os\neval(1)
Code_os_eval == <<"i","m","p","o","r","t"," ","o","s","\n","e","v","a","l","(","1",")">>
\* evaluate(1)
Code_evaluate == <<"e","v","a","l","u","a","t","e","(","1",")">>
\* process.exit()
Code_process == <<"p","r","o","c","e","s","s",".","e","x","i","t","(",")">>
\* require(1)
Code_require == <<"r","e","q","u","i","r","e","(","1",")">>
\* new Function()
Code_Function == <<"n","e","w"," ","F","u","n","c","t","i","o","n","(",")">>
DenyListCodes ==
    {Code_print, Code_import_math,
     Code_eval,
     Code_exec,
     Code_os_system,
     Code_subprocess_call,
     Code_math_exec,
     Code_os_eval,
     Code_evaluate,
     Code_process,
     Code_require,
     Code_Function}

\* The standard-input payloads callers pass.
InputDatas == {""}

\* ------------------------------------------------------------ execute_code
\* self.timeout, in clock ticks.
timeout == TimeoutTicks

\* The dictionary every return statement of execute_code builds.
Result(out, err, t, st) ==
    [output |-> out, error |-> err, execution_time |-> t, status |-> st]

Exception(type, msg) == [type |-> type, msg |-> msg]
\* The exception classes that derive from Exception (all the ones raised here).
ExceptionClasses == {"OSError", "FileExistsError", "UnicodeDecodeError",
                     "TimeoutExpired", "SubprocessError"}

\* Faulty variants of the except clauses: TimeoutExpired handled like any other
\* exception; only TimeoutExpired caught; the fault's message dropped.
ExceptClausesTimeoutAsError(exc, st, t) ==
    [kind |-> "return",
     value |-> Result("", "Execution error: " \o exc.msg,
                      IF st = NoneTime THEN 0 ELSE t - st, "error")]
ExceptClausesOnlyTimeout(exc, st, t) ==
    IF exc.type = "TimeoutExpired"
    THEN [kind |-> "return",
          value |-> Result("", "Execution timed out after " \o ToString(timeout) \o " seconds",
                           timeout, "timeout")]
    ELSE [kind |-> "raise", value |-> exc]
ExceptClausesNoMessage(exc, st, t) ==
    IF exc.type = "TimeoutExpired"
    THEN [kind |-> "return",
          value |-> Result("", "Execution timed out after " \o ToString(timeout) \o " seconds",
                           timeout, "timeout")]
    ELSE [kind |-> "return",
          value |-> Result("", "Execution error", IF st = NoneTime THEN 0 ELSE t - st, "error")]

\* The except clauses of _execute_with_subprocess: what an exception raised in
\* the try block becomes. <<"return", dict>> or <<"raise", exception>>.
ExceptClauses(exc, st, t) ==
    IF exc.type = "TimeoutExpired"
    THEN [kind |-> "return",
          value |-> Result("", "Execution timed out after " \o ToString(timeout) \o " seconds",
                           timeout, "timeout")]
    ELSE IF exc.type \in ExceptionClasses
    THEN [kind |-> "return",
          value |-> Result("", "Execution error: " \o exc.msg,
                           IF st = NoneTime THEN 0 ELSE t - st, "error")]
    ELSE [kind |-> "raise", value |-> exc]

\* Faulty variant: the exit code ignored.
RunStatusAlwaysSuccess(returncode) == "success"

\* Faulty variant: only positive exit codes count as failures, so a child
\* ended by a signal (negative returncode) passes for a success.
RunStatusSignalIsSuccess(returncode) == IF returncode > 0 THEN "error" ELSE "success"

\* 'success' if result.returncode == 0 else 'error'
RunStatus(returncode) == IF returncode = 0 THEN "success" ELSE "error"

\* Faulty variant: the validator's verdict ignored.
RejectedNever(v) == FALSE

\* `if not is_valid` on what _validate_code returned.
Rejected(v) == ~v.valid

\* Faulty variant: the compiler's exit code ignored.
CompileFailedNever(returncode) == FALSE

\* `if compile_result.returncode != 0`
CompileFailed(returncode) == returncode # 0

\* Faulty variant: the child's stderr left out of the result.
RunResultNoStderr(o, t) == Result(o.stdout, "", t, RunStatus(o.returncode))

\* The dictionary built from the run child's CompletedProcess.
RunResult(o, t) == Result(o.stdout, o.stderr, t, RunStatus(o.returncode))

\* Faulty variant: every language name taken as supported.
UnsupportedNever(lang) == FALSE

\* The `if language not in self.language_config` test of execute_code.
Unsupported(lang) == Str(lang) \notin DOMAIN language_config

\* re.search(r'public\s+class\s+(\w+)', code): <<class name>> of the leftmost
\* match, or <<>>.
ClassAt(s, i) ==
    IF LitAt(s, i, W_public)
    THEN LET a == i + Len(W_public)
             b == SpaceRunEnd(s, a)
             d == b + Len(W_class)
             e == SpaceRunEnd(s, d)
             f == WordRunEnd(s, e)
         IN  [ok |-> b > a /\ LitAt(s, b, W_class) /\ e > d /\ f > e,
              name |-> SubSeq(s, e, f - 1)]
    ELSE [ok |-> FALSE, name |-> <<>>]
\* Faulty variant: re.search taking the last match instead of the first.
ClassMatchLast(s) ==
    LET hits == {i \in 1..Len(s) : ClassAt(s, i).ok}
    IN  IF hits = {} THEN <<>>
        ELSE <<ClassAt(s, CHOOSE i \in hits : \A j \in hits : i >= j).name>>
\* Faulty variant: a class name is made up when the code declares none.
ClassMatchDefaultMain(s) == <<<<"M", "a", "i", "n">>>>

ClassMatch(s) ==
    LET hits == {i \in 1..Len(s) : ClassAt(s, i).ok}
    IN  IF hits = {} THEN <<>>
        ELSE <<ClassAt(s, CHOOSE i \in hits : \A j \in hits : i <= j).name>>

\* The name of the source file: '<class>.java' for java, 'main<extension>' otherwise.
SourceFileName(code, lang) ==
    IF Str(lang) = "java"
    THEN Str(ClassMatch(code)[1]) \o ".java"
    ELSE "main" \o language_config[Str(lang)].extension

\* What a successful compile leaves in the working directory.
Artifact(lang, fname) ==
    IF Str(lang) = "java" THEN "<class files>" ELSE "program"

\* Faulty variant: the item is appended to the registry's own list.
RegistryAfterAppend(reg, key, field, item) ==
    [reg EXCEPT ![key] = [@ EXCEPT ![field] = Append(@, item)]]

\* The registry after `config[field] + [item]`: the `+` of two lists builds a
\* new list and leaves the one in the registry as it was.
RegistryAfterConcat(reg, key, field, item) == reg

\* compile_cmd
\* The temporary directory's own path, up to the file name.
W_tmpdir == <<"/","t","m","p","/","t","m","p",".","d","/">>
W_dot_java == <<".","j","a","v","a">>
\* os.path.join(temp_dir, f'{class_name}.java')
JavaFilePath(code) == W_tmpdir \o ClassMatch(code)[1] \o W_dot_java
\* os.path.basename: what follows the last '/'.
Basename(p) ==
    LET slashes == {i \in 1..Len(p) : p[i] = "/"}
    IN  IF slashes = {} THEN p
        ELSE SubSeq(p, (CHOOSE i \in slashes : \A j \in slashes : i >= j) + 1, Len(p))
\* os.path.splitext(p)[0]: p up to its last '.', leading dots of the name aside.
SplitExtRoot(p) ==
    LET dots == {i \in 1..Len(p) : p[i] = "." /\ \E j \in 1..(i - 1) : p[j] # "."}
    IN  IF dots = {} THEN p
        ELSE SubSeq(p, 1, (CHOOSE i \in dots : \A j \in dots : i >= j) - 1)
CompileCmd(config, path) == config.compile_command \o <<path.name>>
\* run_cmd: os.path.splitext(os.path.basename(file_path))[0] for java.
RunCmd(config, lang, code, path) ==
    IF config.needs_compile
    THEN IF Str(lang) = "java"
         THEN config.command \o <<Str(SplitExtRoot(Basename(JavaFilePath(code))))>>
         ELSE config.command
    ELSE config.command \o <<path.name>>

\* The four setrlimit calls of _set_resource_limits, in the order it makes them.
Limits == <<"RLIMIT_AS", "RLIMIT_CPU", "RLIMIT_FSIZE", "RLIMIT_NPROC">>
\* A host: whether `import resource` worked (HAS_RESOURCE), which of the four
\* setrlimit calls raises there (0: none; a hard limit below the requested value
\* makes setrlimit raise ValueError), and whether the server runs as root.
Platforms ==
    {p \in [HAS_RESOURCE : BOOLEAN, setrlimit_fails : 0..Len(Limits), root : BOOLEAN] :
        ~p.HAS_RESOURCE => p.setrlimit_fails = 0}
PosixPlatform == [HAS_RESOURCE |-> TRUE, setrlimit_fails |-> 0, root |-> FALSE]

\* Lines 148-158, the preexec_fn of every child: the limits in force when the
\* child execs. Without the resource module it returns at once; a setrlimit
\* call that raises is logged and the calls after it are skipped.
_set_resource_limits ==
    IF ~platform.HAS_RESOURCE THEN {}
    ELSE IF platform.setrlimit_fails = 0 THEN Range(Limits)
    ELSE {Limits[i] : i \in 1..(platform.setrlimit_fails - 1)}

\* A child can start processes of its own unless RLIMIT_NPROC (1, 1) holds for
\* it; the kernel does not hold root to that limit.
CanFork == "RLIMIT_NPROC" \notin _set_resource_limits \/ platform.root
\* How many processes started by a child are alive when subprocess.run comes
\* back: it kills and reaps the child alone (no process group, no killpg).
Leftovers == IF CanFork THEN {0, 1} ELSE {0}

\* What a child process captured: (stdout, stderr).
ChildOutputs == {[stdout |-> "out", stderr |-> "err"]}
\* Exit codes of a child that ended by itself (0, 1) or by a signal (-9).
ReturnCodes == {0, 1, -9}
\* What subprocess.run can do: fail to spawn the child (OSError), give up after
\* `timeout` and kill it (TimeoutExpired), fail to decode what the child wrote
\* (text=True: UnicodeDecodeError), or come back with the child's exit code and
\* its captured output.
ChildOutcomes ==
    {[kind |-> "spawn_fault", returncode |-> 0, ticks |-> 0, stdout |-> "", stderr |-> "",
      left |-> 0]}
    \cup {[kind |-> "timeout", returncode |-> 0, ticks |-> timeout, stdout |-> "", stderr |-> "",
           left |-> n] : n \in Leftovers}
    \cup {[kind |-> "capture_fault", returncode |-> 0, ticks |-> t, stdout |-> "", stderr |-> "",
           left |-> n] : t \in 0..timeout, n \in Leftovers}
    \cup {[kind |-> "exited", returncode |-> rc, ticks |-> t, stdout |-> o.stdout,
           stderr |-> o.stderr, left |-> n] :
            rc \in ReturnCodes, t \in 0..timeout, o \in ChildOutputs, n \in Leftovers}

\* What the next child does once subprocess.run tries to start it: it cannot be
\* started, it is still running when the deadline comes (a program that never
\* exits), or it ends by itself before that. It is the program and the host
\* that settle this, not the executor.
Fates == {"spawn_fault", "runs_on", "ends"}
NoFate == "none"
FateOf(o) ==
    IF o.kind = "spawn_fault" THEN "spawn_fault"
    ELSE IF o.kind = "timeout" THEN "runs_on"
    ELSE "ends"

\* Faulty variant: subprocess.run called without a timeout waits for the child
\* to end by itself.
ReturnsOnlyIfChildEnds(o) == o.kind # "timeout"

\* subprocess.run(..., timeout=self.timeout) comes back whatever the child does:
\* when the child is still running at the deadline it kills it, reaps it and
\* raises TimeoutExpired.
Returns(o) == TRUE

\* The record kept of one subprocess.run call.
Child(phase, cmd, cwd, stdin, o) ==
    [phase |-> phase, cmd |-> cmd, cwd |-> cwd, input |-> stdin, timeout |-> timeout,
     started |-> o.kind # "spawn_fault", outcome |-> o.kind, returncode |-> o.returncode,
     stdout |-> o.stdout, stderr |-> o.stderr,
     limits |-> _set_resource_limits, descendants |-> o.left]

\* The exception subprocess.run raises for an outcome, or NoneRecord.
Raised(o) ==
    IF o.kind = "spawn_fault" THEN Exception("OSError", "No such file or directory")
    ELSE IF o.kind = "timeout" THEN Exception("TimeoutExpired", "timed out")
    ELSE IF o.kind = "capture_fault" THEN Exception("UnicodeDecodeError", "invalid start byte")
    ELSE NoneRecord

Step(c, name) == trace' = [trace EXCEPT ![c] = Append(@, name)]
Goto(c, label) == pc' = [pc EXCEPT ![c] = label]
\* `return value` outside any try block.
ReturnNow(c, value) ==
    /\ result' = [result EXCEPT ![c] = value]
    /\ Goto(c, "returned")
\* `return value` or an exception inside the try block: the except clauses pick
\* the value, and `finally` runs before it reaches the caller.
ReturnInTry(c, value) ==
    /\ UNCHANGED raised
    /\ pending' = [pending EXCEPT ![c] = [kind |-> "return", value |-> value]]
    /\ Goto(c, "finally")
\* Faulty variant: the failed step is tried again instead of given up.
RaiseInTryRetry(c, exc, st, t) ==
    /\ raised' = [raised EXCEPT ![c] = exc]
    /\ UNCHANGED <<pending, pc>>

RaiseInTry(c, exc, st, t) ==
    /\ raised' = [raised EXCEPT ![c] = exc]
    /\ pending' = [pending EXCEPT ![c] = ExceptClauses(exc, st, t)]
    /\ Goto(c, "finally")

\* A caller calls execute_code(code, language, input_data).
Call(c) ==
    /\ pc[c] = "idle"
    /\ UNCHANGED child_fate
    /\ \E code \in requests.codes, lang \in requests.languages, inp \in InputDatas :
          args' = [args EXCEPT ![c] = [code |-> code, language |-> lang, input_data |-> inp]]
    /\ Goto(c, "resolve")
    /\ UNCHANGED <<language_config, hashSeed, platform, requests, limiter, fs, files, language, temp_dir, file_path,
                   start_time, now, raised, pending, result, children, trace, vcall>>

\* Lines 171-178: language = language.lower(); unsupported languages return at once.
Resolve(c) ==
    /\ pc[c] = "resolve"
    /\ UNCHANGED child_fate
    /\ LET lang == Lower(args[c].language)
       IN  /\ language' = [language EXCEPT ![c] = lang]
           /\ IF Unsupported(lang)
              THEN ReturnNow(c, Result("", "Unsupported language: " \o Str(lang), 0, "error"))
              ELSE Goto(c, "validate") /\ UNCHANGED result
    /\ Step(c, "resolve")
    /\ UNCHANGED <<language_config, hashSeed, platform, requests, limiter, fs, files, args, temp_dir, file_path,
                   start_time, now, raised, pending, children, vcall>>

\* Lines 180-190: the validator, and the early return when it rejects.
\* Faulty variant: the message prefixed the way the /execute endpoint does.
ValidationErrorPrefixed(v) == Result("", "Validation error: " \o v.msg, 0, "validation_error")

\* Lines 182-187: the dictionary execute_code returns for a rejected code.
ValidationError(v) == Result("", v.msg, 0, "validation_error")

Validate(c) ==
    /\ pc[c] = "validate"
    /\ UNCHANGED child_fate
    /\ LET v == _validate_code(args[c].code, language[c])
       IN  IF Rejected(v)
           THEN ReturnNow(c, ValidationError(v))
           ELSE Goto(c, "mkdtemp") /\ UNCHANGED result
    /\ Step(c, "validate")
    /\ UNCHANGED <<language_config, hashSeed, platform, requests, limiter, fs, files, args, language, temp_dir, file_path,
                   start_time, now, raised, pending, children, vcall>>

\* Faulty variant: the directory name is not checked against existing ones.
AnyNames == DirNames

\* The names tempfile.mkdtemp() can give: those no existing directory has
\* (it creates the directory with os.mkdir and tries another name when that
\* reports the name as taken).
FreshNames == DirNames \ fs

\* Lines 197-199: temp_dir = tempfile.mkdtemp(), a directory with a name no
\* existing directory has; it raises when it cannot make one.
Mkdtemp(c) ==
    /\ pc[c] = "mkdtemp"
    /\ UNCHANGED child_fate
    /\ \/ \E d \in FreshNames :
            /\ fs' = fs \cup {d}
            /\ temp_dir' = [temp_dir EXCEPT ![c] = d]
            /\ Goto(c, "source_file")
            /\ Step(c, "mkdtemp")
            /\ UNCHANGED <<raised, pending>>
       \/ /\ RaiseInTry(c, Exception("OSError", "No usable temporary directory"),
                        start_time[c], now[c])
          /\ Step(c, "mkdtemp_failed")
          /\ UNCHANGED <<fs, temp_dir>>
    /\ UNCHANGED <<language_config, hashSeed, platform, requests, limiter, files, args, language, file_path,
                   start_time, now, result, children, vcall>>

\* Lines 201-216: the path of the source file; java without a public class
\* returns an error from inside the try block.
SourceFile(c) ==
    /\ pc[c] = "source_file"
    /\ UNCHANGED child_fate
    /\ IF Str(language[c]) = "java" /\ ClassMatch(args[c].code) = <<>>
       THEN /\ ReturnInTry(c, Result("", "No public class found in Java code", 0, "error"))
            /\ UNCHANGED file_path
       ELSE /\ file_path' = [file_path EXCEPT ![c] =
                    [dir |-> temp_dir[c], name |-> SourceFileName(args[c].code, language[c])]]
            /\ Goto(c, "write")
            /\ UNCHANGED <<raised, pending>>
    /\ UNCHANGED <<language_config, hashSeed, platform, requests, limiter, fs, files, args, language, temp_dir,
                   start_time, now, result, children, trace, vcall>>

\* Faulty variant: the compile step taken for every language.
AfterWriteAlwaysCompile(lang) == "compile"

\* `if config.get('needs_compile', False)`: where the call goes after the write.
AfterWrite(lang) == IF language_config[Str(lang)].needs_compile THEN "compile" ELSE "run"

\* Lines 218-222: open the file and write the code, then start_time = time.time().
\* open() may fail before the file exists, write() after.
WriteSource(c) ==
    /\ pc[c] = "write"
    /\ \/ /\ files' = [files EXCEPT ![c] = @ \cup {file_path[c].name}]
          /\ start_time' = [start_time EXCEPT ![c] = now[c]]
          /\ Goto(c, AfterWrite(language[c]))
          /\ \E f \in Fates : child_fate' = [child_fate EXCEPT ![c] = f]
          /\ Step(c, "write")
          /\ UNCHANGED <<raised, pending>>
       \/ /\ RaiseInTry(c, Exception("OSError", "Permission denied"), start_time[c], now[c])
          /\ Step(c, "write_failed")
          /\ UNCHANGED <<files, start_time, child_fate>>
       \/ /\ RaiseInTry(c, Exception("OSError", "No space left on device"), start_time[c], now[c])
          /\ files' = [files EXCEPT ![c] = @ \cup {file_path[c].name}]
          /\ Step(c, "write_failed")
          /\ UNCHANGED <<start_time, child_fate>>
    /\ UNCHANGED <<language_config, hashSeed, platform, requests, limiter, fs, args, language, temp_dir, file_path,
                   now, result, children, vcall>>

\* Lines 224-242: the compile child, and the early return when it fails.
Compile(c) ==
    /\ pc[c] = "compile"
    /\ \E o \in ChildOutcomes :
          /\ FateOf(o) = child_fate[c]
          /\ Returns(o)
          /\ LET config == language_config[Str(language[c])]
                 t == now[c] + o.ticks
                 exc == Raised(o)
             IN  /\ children' = [children EXCEPT ![c] =
                        Append(@, Child("compile", CompileCmd(config, file_path[c]),
                                        temp_dir[c], "", o))]
                 /\ now' = [now EXCEPT ![c] = t]
                 /\ IF exc # NoneRecord
                    THEN /\ RaiseInTry(c, exc, start_time[c], t)
                         /\ child_fate' = [child_fate EXCEPT ![c] = NoFate]
                         /\ UNCHANGED files
                    ELSE IF CompileFailed(o.returncode)
                    THEN /\ ReturnInTry(c, Result("", "Compilation error: " \o o.stderr,
                                                  t - start_time[c], "compilation_error"))
                         /\ child_fate' = [child_fate EXCEPT ![c] = NoFate]
                         /\ UNCHANGED files
                    ELSE /\ Goto(c, "run")
                         /\ \E f \in Fates : child_fate' = [child_fate EXCEPT ![c] = f]
                         /\ files' = [files EXCEPT ![c] =
                                         @ \cup {Artifact(language[c], file_path[c].name)}]
                         /\ UNCHANGED <<raised, pending>>
    /\ language_config' = RegistryAfterConcat(language_config, Str(language[c]),
                                              "compile_command", file_path[c].name)
    /\ Step(c, "compile")
    /\ UNCHANGED <<hashSeed, platform, requests, limiter, fs, args, language, temp_dir, file_path,
                   start_time, result, vcall>>

\* Lines 244-270: the run child and the result built from it.
Run(c) ==
    /\ pc[c] = "run"
    /\ child_fate' = [child_fate EXCEPT ![c] = NoFate]
    /\ \E o \in ChildOutcomes :
          /\ FateOf(o) = child_fate[c]
          /\ Returns(o)
          /\ LET config == language_config[Str(language[c])]
                 t == now[c] + o.ticks
                 exc == Raised(o)
             IN  /\ children' = [children EXCEPT ![c] =
                        Append(@, Child("run", RunCmd(config, language[c], args[c].code, file_path[c]),
                                        temp_dir[c], args[c].input_data, o))]
                 /\ now' = [now EXCEPT ![c] = t]
                 /\ IF exc # NoneRecord
                    THEN RaiseInTry(c, exc, start_time[c], t)
                    ELSE ReturnInTry(c, RunResult(o, t - start_time[c]))
    /\ language_config' =
          IF language_config[Str(language[c])].needs_compile /\ Str(language[c]) # "java"
          THEN language_config
          ELSE RegistryAfterConcat(language_config, Str(language[c]), "command",
                                   file_path[c].name)
    /\ Step(c, "run")
    /\ UNCHANGED <<hashSeed, platform, requests, limiter, fs, files, args, language, temp_dir, file_path,
                   start_time, result, vcall>>

\* Faulty variant: the cleanup's exception leaves the finally block.
CleanupExceptMissing(exc, p) == [kind |-> "raise", value |-> exc]

\* Lines 289-292: `except Exception as e: logger.error(...)` around rmtree. The
\* exception is logged and what was pending stays pending.
CleanupExcept(exc, p) ==
    IF exc.type \in ExceptionClasses THEN p ELSE [kind |-> "raise", value |-> exc]

\* The end of the finally block: the pending return value, or the pending
\* exception, reaches the caller.
Leave(c, p) ==
    IF p.kind = "return"
    THEN /\ result' = [result EXCEPT ![c] = p.value]
         /\ Goto(c, "returned")
    ELSE /\ result' = [result EXCEPT ![c] = [exception |-> p.value]]
         /\ Goto(c, "raised")

\* Faulty variant: the cleanup never entered.
CleanupNeverNeeded(c) == FALSE

\* `temp_dir and os.path.exists(temp_dir)`
CleanupNeeded(c) == temp_dir[c] # NoneDir /\ temp_dir[c] \in fs

\* Lines 286-292: the finally block, then the pending return value (or exception)
\* reaches the caller. shutil.rmtree may fail; the failure is logged and the
\* directory stays.
Finally(c) ==
    /\ pc[c] = "finally"
    /\ UNCHANGED child_fate
    /\ IF CleanupNeeded(c)
       THEN \/ /\ fs' = fs \ {temp_dir[c]}
               /\ files' = [files EXCEPT ![c] = {}]
               /\ Step(c, "rmtree")
               /\ Leave(c, pending[c])
            \/ /\ Step(c, "rmtree_failed")
               /\ UNCHANGED <<fs, files>>
               /\ Leave(c, CleanupExcept(Exception("OSError", "Directory not empty"), pending[c]))
       ELSE /\ UNCHANGED <<fs, files, trace>>
            /\ Leave(c, pending[c])
    /\ UNCHANGED <<language_config, hashSeed, platform, requests, limiter, args, language, temp_dir, file_path,
                   start_time, now, raised, pending, children, vcall>>

\* The caller has the result (or the exception) and is free to call again.
Done(c) ==
    /\ pc[c] \in {"returned", "raised", "validated", "listed", "formatted"}
    /\ UNCHANGED child_fate
    /\ Goto(c, "idle")
    /\ args' = [args EXCEPT ![c] = NoneRecord]
    /\ language' = [language EXCEPT ![c] = NoneText]
    /\ temp_dir' = [temp_dir EXCEPT ![c] = NoneDir]
    /\ file_path' = [file_path EXCEPT ![c] = NoneRecord]
    /\ start_time' = [start_time EXCEPT ![c] = NoneTime]
    /\ now' = [now EXCEPT ![c] = 0]
    /\ pending' = [pending EXCEPT ![c] = NoneRecord]
    /\ raised' = [raised EXCEPT ![c] = NoneRecord]
    /\ result' = [result EXCEPT ![c] = NoneRecord]
    /\ children' = [children EXCEPT ![c] = <<>>]
    /\ trace' = [trace EXCEPT ![c] = <<>>]
    /\ files' = [files EXCEPT ![c] = {}]
    /\ vcall' = [vcall EXCEPT ![c] = NoneRecord]
    /\ UNCHANGED <<language_config, hashSeed, platform, requests, limiter, fs>>

\* ----------------------------------------------------------- validate_code
\* Lines 294-308: the public validate_code(code, language).
validate_code(code, lang) ==
    LET v == _validate_code(code, lang)
    IN  [status |-> IF v.valid THEN "valid" ELSE "invalid",
         errors |-> IF v.valid THEN <<>> ELSE <<v.msg>>]

\* A caller calls validate_code(code, language) and gets its dictionary.
CallValidate(c) ==
    /\ pc[c] = "idle"
    /\ UNCHANGED child_fate
    /\ \E code \in requests.codes, lang \in requests.languages :
          /\ args' = [args EXCEPT ![c] = [code |-> code, language |-> lang, input_data |-> ""]]
          /\ vcall' = [vcall EXCEPT ![c] = validate_code(code, lang)]
    /\ Goto(c, "validated")
    /\ UNCHANGED <<language_config, hashSeed, platform, requests, limiter, fs, files, language, temp_dir, file_path,
                   start_time, now, raised, pending, result, children, trace>>

\* Lines 310-312: list(self.language_config.keys()), a list of its own.
get_supported_languages == DOMAIN language_config

\* A caller calls get_supported_languages().
GetSupportedLanguages(c) ==
    /\ pc[c] = "idle"
    /\ UNCHANGED child_fate
    /\ vcall' = [vcall EXCEPT ![c] = [languages |-> get_supported_languages]]
    /\ Goto(c, "listed")
    /\ UNCHANGED <<language_config, hashSeed, platform, requests, limiter, fs, files, args, language,
                   temp_dir, file_path, start_time, now, raised, pending, result, children,
                   trace>>

\* Lines 314-340: format_code(code, language). black (python) or prettier
\* (javascript, typescript) gives the formatted text, which ends with a newline;
\* when the formatter is missing, fails or rejects the code, and for every other
\* language name, the code comes back as it was.
format_code(code, lang) ==
    IF Str(lang) \in {"python", "javascript", "typescript"}
    THEN {code, IF code # <<>> /\ code[Len(code)] = "\n" THEN code ELSE Append(code, "\n")}
    ELSE {code}

\* A caller calls format_code(code, language).
FormatCode(c) ==
    /\ pc[c] = "idle"
    /\ UNCHANGED child_fate
    /\ \E code \in requests.codes, lang \in requests.languages :
          /\ args' = [args EXCEPT ![c] = [code |-> code, language |-> lang, input_data |-> ""]]
          /\ \E text \in format_code(code, lang) :
                vcall' = [vcall EXCEPT ![c] = [formatted |-> text]]
    /\ Goto(c, "formatted")
    /\ UNCHANGED <<language_config, hashSeed, platform, requests, limiter, fs, files, language,
                   temp_dir, file_path, start_time, now, raised, pending, result, children,
                   trace>>

\* ------------------------------------------------------ check_rate_limit
\* RATE_LIMIT = 100  # requests per minute (scaled, see RateLimitBound)
RATE_LIMIT == RateLimitBound
\* The 60 of `> 60` and `+ 60`, in ticks.
Minute == WindowTicks
\* The values of the X-API-Key header.
ApiKeys == {"key_a", "key_b"}
NoVerdict == "none"
\* What a request is answered with: HTTPException(status_code=429) or the key.
Verdict(status, last) == [status |-> status, turn |-> 1 - last.turn]

\* `if current_time - last_cleanup > 60`
CleanupDue(current_time) == current_time - last_cleanup > Minute

\* `if current_time > data['reset_time']`
WindowOver(current_time, data) == current_time > data.reset_time

\* The store after the clean-up and the get-or-initialise of one request.
StoreWithKey(api_key, current_time) ==
    LET cleared == IF CleanupDue(current_time) THEN <<>> ELSE rate_limit_store
    IN  IF api_key \in DOMAIN cleared
        THEN cleared
        ELSE [k \in DOMAIN cleared \cup {api_key} |->
                 IF k = api_key THEN [count |-> 0, reset_time |-> current_time + Minute]
                 ELSE cleared[k]]

\* Faulty variant: the entry of a known key is used as it was found, neither
\* cleared nor reset.
WindowDataStale(api_key, current_time) ==
    IF api_key \in DOMAIN rate_limit_store
    THEN rate_limit_store[api_key]
    ELSE [count |-> 0, reset_time |-> current_time + Minute]

\* data after `if current_time > data['reset_time']: ...`
WindowData(api_key, current_time) ==
    LET data == StoreWithKey(api_key, current_time)[api_key]
    IN  IF WindowOver(current_time, data)
        THEN [count |-> 0, reset_time |-> current_time + Minute]
        ELSE data

\* Lines 102-132: one request passes through the dependency of /execute. It is
\* turned away with HTTP 429 or counted and let through.
check_rate_limit(api_key) ==
    LET current_time == wall_clock
        store == StoreWithKey(api_key, current_time)
        data == WindowData(api_key, current_time)
    IN  /\ last_cleanup' = IF CleanupDue(current_time) THEN current_time ELSE last_cleanup
        /\ IF data.count >= RATE_LIMIT
           THEN /\ rate_limit_store' = [store EXCEPT ![api_key] = data]
                /\ verdict' = [verdict EXCEPT ![api_key] = Verdict("429", @)]
                /\ locked_until' = [locked_until EXCEPT ![api_key] = data.reset_time]
                /\ UNCHANGED recent
           ELSE /\ rate_limit_store' = [store EXCEPT ![api_key] = [data EXCEPT !.count = @ + 1]]
                /\ verdict' = [verdict EXCEPT ![api_key] = Verdict("admitted", @)]
                /\ UNCHANGED locked_until
                /\ recent' = [recent EXCEPT ![api_key] = Append(@, current_time)]
        /\ UNCHANGED <<wall_clock, language_config, hashSeed, platform, requests, fs, files, pc,
                       args, language, temp_dir, file_path, start_time, now, raised, pending,
                       result, children, trace, child_fate, vcall>>

\* A request with the header X-API-Key: api_key arrives.
CheckRateLimit == \E api_key \in ApiKeys : check_rate_limit(api_key)

\* The admissions of a list that are less than a window old at time t.
Since(times, t) == SelectSeq(times, LAMBDA x : t - x < Minute)

\* A tick of the wall clock passes between two requests.
Tick ==
    /\ wall_clock < MaxClock
    /\ wall_clock' = wall_clock + 1
    /\ recent' = [k \in ApiKeys |-> Since(recent[k], wall_clock + 1)]
    /\ UNCHANGED <<rate_limit_store, last_cleanup, verdict, locked_until, language_config,
                   hashSeed, platform, requests, fs, files, pc, args, language, temp_dir,
                   file_path, start_time, now, raised, pending, result, children, trace,
                   child_fate, vcall>>

\* ----------------------------------------------------------- specification
\* After CodeExecutor(): the registry is built, nobody is calling, and no
\* temporary directory exists.
Constructed ==
    /\ language_config = LanguageConfig
    /\ fs = {}
    /\ files = [c \in Calls |-> {}]
    /\ pc = [c \in Calls |-> "idle"]
    /\ args = [c \in Calls |-> NoneRecord]
    /\ language = [c \in Calls |-> NoneText]
    /\ temp_dir = [c \in Calls |-> NoneDir]
    /\ file_path = [c \in Calls |-> NoneRecord]
    /\ start_time = [c \in Calls |-> NoneTime]
    /\ now = [c \in Calls |-> 0]
    /\ pending = [c \in Calls |-> NoneRecord]
    /\ raised = [c \in Calls |-> NoneRecord]
    /\ result = [c \in Calls |-> NoneRecord]
    /\ children = [c \in Calls |-> <<>>]
    /\ trace = [c \in Calls |-> <<>>]
    /\ child_fate = [c \in Calls |-> NoFate]
    /\ vcall = [c \in Calls |-> NoneRecord]
    /\ rate_limit_store = <<>>
    /\ last_cleanup = 0
    /\ wall_clock = 0
    /\ verdict = [k \in ApiKeys |-> [status |-> NoVerdict, turn |-> 0]]
    /\ recent = [k \in ApiKeys |-> <<>>]
    /\ locked_until = [k \in ApiKeys |-> NoneTime]

\* A POSIX host where every setrlimit call succeeds and the server is not root.
Init ==
    /\ Constructed
    /\ hashSeed \in 0..(NumHashSeeds - 1)
    /\ platform = PosixPlatform
    /\ requests = [codes |-> Codes, languages |-> LanguageNames]

\* Faulty variant: the endpoint hands execute_code to a thread of its own.
OthersIdleIgnored(c) == TRUE

\* The endpoints are coroutines of one event loop and execute_code never
\* awaits: a call runs to its return before the next one starts.
OthersIdle(c) == \A d \in Calls \ {c} : pc[d] = "idle"

Next ==
    \E c \in Calls :
        \/ OthersIdle(c) /\ Call(c)
        \/ OthersIdle(c) /\ CallValidate(c)
        \/ OthersIdle(c) /\ GetSupportedLanguages(c)
        \/ OthersIdle(c) /\ FormatCode(c)
        \/ Resolve(c)
        \/ Validate(c)
        \/ Mkdtemp(c)
        \/ SourceFile(c)
        \/ WriteSource(c)
        \/ Compile(c)
        \/ Run(c)
        \/ Finally(c)
        \/ Done(c)

Spec == Init /\ [][Next]_vars

\* A call that has started goes on: the thread that runs execute_code is not
\* starved, so whichever step the call is at is taken once it can be.
ExecuteStep(c) ==
    \/ Resolve(c)
    \/ Validate(c)
    \/ Mkdtemp(c)
    \/ SourceFile(c)
    \/ WriteSource(c)
    \/ Compile(c)
    \/ Run(c)
    \/ Finally(c)
\* A workload that takes every way through execute_code: an interpreted, a
\* compiled and an unknown language, java code without a public class, and
\* code the validator rejects.
InitLive ==
    /\ Constructed
    /\ hashSeed = 0
    /\ platform = PosixPlatform
    /\ requests = [codes |-> {Code_print, Code_eval},
                   languages |-> {W_python, W_cpp, W_java, W_cobol}]
SpecLive == InitLive /\ [][Next]_vars /\ \A c \in Calls : WF_vars(ExecuteStep(c))

\* The same program on any host, under a small workload: one interpreted and
\* one compiled language, and a program the validator accepts (the hash seed
\* only orders the validator's deny-lists, which this program never meets).
PlatformRequests == [codes |-> {Code_print}, languages |-> {W_python, W_cpp}]
InitPlatform ==
    /\ Constructed
    /\ hashSeed = 0
    /\ platform \in Platforms
    /\ requests = PlatformRequests
SpecPlatform == InitPlatform /\ [][Next]_vars

\* The same program, asked to run one text as a program of each registry
\* language.
InitNaming ==
    /\ Constructed
    /\ hashSeed = 0
    /\ platform = PosixPlatform
    /\ requests = [codes |-> {Code_two_classes}, languages |-> RegistryNames]
SpecNaming == InitNaming /\ [][Next]_vars

\* The router's rate limiter on its own: requests of two keys arrive as the
\* wall clock advances.
InitRateLimit ==
    /\ Constructed
    /\ hashSeed = 0
    /\ platform = PosixPlatform
    /\ requests = [codes |-> {Code_print}, languages |-> {W_python}]
NextRateLimit == CheckRateLimit \/ Tick
SpecRateLimit == InitRateLimit /\ [][NextRateLimit]_vars

\* The same program, asked to screen and run programs of all ten registry
\* languages.
InitScreening ==
    /\ Constructed
    /\ hashSeed = 0
    /\ platform = PosixPlatform
    /\ requests = [codes |-> ScreeningCodes, languages |-> RegistryNames]
SpecScreening == InitScreening /\ [][Next]_vars

\* validate_code alone, asked about programs that use deny-listed names, under
\* the three languages that have a deny-list.
InitDenyList ==
    /\ Constructed
    /\ hashSeed \in 0..(NumHashSeeds - 1)
    /\ platform = PosixPlatform
    /\ requests = [codes |-> DenyListCodes, languages |-> {W_python, W_javascript, W_typescript}]
NextValidate ==
    \E c \in Calls :
        \/ OthersIdle(c) /\ CallValidate(c)
        \/ Done(c)
SpecDenyList == InitDenyList /\ [][NextValidate]_vars

\* Two callers of one CodeExecutor whose execute_code calls interleave freely
\* (callers on threads of their own, which the class does not forbid), each
\* sending a program of a compiled language.
ConcurrentCalls == {1, 2}
ConcurrentRequests == [codes |-> {Code_print}, languages |-> {W_cpp}]
InitConc ==
    /\ Constructed
    /\ hashSeed = 0
    /\ platform = PosixPlatform
    /\ requests = ConcurrentRequests
NextConc ==
    \E c \in ConcurrentCalls :
        \/ Call(c)
        \/ Resolve(c)
        \/ Validate(c)
        \/ Mkdtemp(c)
        \/ SourceFile(c)
        \/ WriteSource(c)
        \/ Compile(c)
        \/ Run(c)
        \/ Finally(c)
        \/ Done(c)
SpecConc == InitConc /\ [][NextConc]_vars

\* ------------------------------------------------------------------ claims
\* The positions inside execute_code.
InExecute(c) ==
    pc[c] \in {"resolve", "validate", "mkdtemp", "source_file", "write", "compile",
               "run", "finally", "returned", "raised"}
\* The registry key the call's language name lowers to, and whether it is one.
Key(c) == Str(Lower(args[c].language))
Known(c) == Key(c) \in DOMAIN LanguageConfig
NeedsCompile(c) == LanguageConfig[Key(c)].needs_compile
\* The validator's verdict on the call's code under its lowered language.
ValidatorAccepts(c) == _validate_code(args[c].code, Lower(args[c].language)).valid
LastChild(c) == children[c][Len(children[c])]
LastStep(c) == trace[c][Len(trace[c])]
ResultFields == {"output", "error", "execution_time", "status"}
Statuses == {"success", "compilation_error", "runtime_error", "timeout",
             "validation_error", "error"}

\* C1: when the validator rejects the code of a call (under the resolved
\* language), execute_code returns status 'validation_error' right after the
\* validation, and at no point of the call is there a temporary directory, a
\* source file or a child process of that call.
C1_RejectedCodeNeverRuns ==
    \A c \in Calls :
        (InExecute(c) /\ Known(c) /\ ~ValidatorAccepts(c)) =>
            /\ temp_dir[c] = NoneDir
            /\ files[c] = {}
            /\ children[c] = <<>>
            /\ pc[c] \in {"resolve", "validate", "returned"}
            /\ pc[c] = "returned" =>
                  /\ result[c].status = "validation_error"
                  /\ trace[c] = <<"resolve", "validate">>
C1_Witness ==
    \E c \in Calls :
        /\ pc[c] = "returned" /\ Known(c) /\ ~ValidatorAccepts(c)
        /\ result[c].status = "validation_error"

\* C2 as claimed: whenever execute_code returns, the directory it created no
\* longer exists, also when removing the directory failed.
C2_WorkspaceAlwaysRemoved ==
    \A c \in Calls :
        (pc[c] \in {"returned", "raised"} /\ temp_dir[c] # NoneDir) => temp_dir[c] \notin fs
\* C2 amended: whenever execute_code returns after it created a directory, the
\* removal of the directory was the last thing it did, on every exit path, and
\* the directory still exists exactly when that removal failed.
C2_WorkspaceRemovedUnlessRmtreeFails ==
    \A c \in Calls :
        (pc[c] \in {"returned", "raised"} /\ temp_dir[c] # NoneDir) =>
            /\ LastStep(c) \in {"rmtree", "rmtree_failed"}
            /\ temp_dir[c] \in fs <=> LastStep(c) = "rmtree_failed"
C2_Witness ==
    \E c \in Calls :
        /\ pc[c] = "returned" /\ temp_dir[c] # NoneDir /\ temp_dir[c] \notin fs
        /\ raised[c] # NoneRecord

\* C3: for a language that needs compiling, a compile child that exits with a
\* non-zero code is the last child of the call and the call returns
\* 'compilation_error'; a run child exists only after a compile child that
\* exited with code 0.
C3_CompileFailureSkipsRun ==
    \A c \in Calls : \A i \in DOMAIN children[c] :
        LET ch == children[c][i]
        IN  /\ (ch.phase = "compile" /\ ch.outcome = "exited" /\ ch.returncode # 0) =>
                  /\ i = Len(children[c])
                  /\ pc[c] \in {"finally", "returned"}
                  /\ pc[c] = "returned" => result[c].status = "compilation_error"
            /\ (ch.phase = "run" /\ NeedsCompile(c)) =>
                  /\ i = 2
                  /\ children[c][1].phase = "compile"
                  /\ children[c][1].outcome = "exited"
                  /\ children[c][1].returncode = 0
C3_Witness ==
    \E c \in Calls :
        /\ pc[c] = "returned" /\ children[c] # <<>>
        /\ LastChild(c).phase = "compile" /\ LastChild(c).outcome = "exited"
        /\ LastChild(c).returncode # 0

\* The run child came back with an exit code (no timeout, its output captured).
RunExited(c) ==
    /\ children[c] # <<>>
    /\ LastChild(c).phase = "run"
    /\ LastChild(c).outcome = "exited"

C5_TimeoutIsTerminal ==
    \A c \in Calls : \A i \in DOMAIN children[c] :
        children[c][i].outcome = "timeout" =>
            /\ i = Len(children[c])
            /\ pc[c] \in {"finally", "returned"}
            /\ pc[c] = "returned" =>
                  /\ result[c].status = "timeout"
                  /\ result[c].execution_time = timeout
C5_Witness ==
    \E c \in Calls :
        /\ pc[c] = "returned" /\ children[c] # <<>>
        /\ LastChild(c).phase = "compile" /\ LastChild(c).outcome = "timeout"

\* The conditions of success: the language resolved, the validator accepted,
\* the compile child (if the language needs one) exited 0 and the run child
\* exited 0 within the timeout.
SuccessConditions(c) ==
    /\ Known(c)
    /\ ValidatorAccepts(c)
    /\ NeedsCompile(c) =>
          \E i \in DOMAIN children[c] :
              /\ children[c][i].phase = "compile"
              /\ children[c][i].outcome = "exited"
              /\ children[c][i].returncode = 0
    /\ \E i \in DOMAIN children[c] :
          /\ children[c][i].phase = "run"
          /\ children[c][i].outcome = "exited"
          /\ children[c][i].returncode = 0

\* C6: execute_code returns status 'success' if and only if the conditions of
\* success hold, and then its output is the run child's stdout.
C6_SuccessIffAllPhasesPass ==
    \A c \in Calls :
        pc[c] = "returned" =>
            /\ result[c].status = "success" <=> SuccessConditions(c)
            /\ result[c].status = "success" => result[c].output = LastChild(c).stdout
C6_Witness ==
    \E c \in Calls :
        /\ pc[c] = "returned" /\ result[c].status = "success"
        /\ NeedsCompile(c) /\ result[c].output = "out"

\* C7: for a language name that lowers to no registry key, the step after the
\* lookup has returned status 'error' with the 'Unsupported language' message;
\* the validator did not run, and the call has no directory, file or child.
C7_UnsupportedLanguageReturnsAtOnce ==
    \A c \in Calls :
        (InExecute(c) /\ pc[c] # "resolve" /\ ~Known(c)) =>
            /\ pc[c] = "returned"
            /\ result[c] = Result("", "Unsupported language: " \o Key(c), 0, "error")
            /\ trace[c] = <<"resolve">>
            /\ temp_dir[c] = NoneDir /\ files[c] = {} /\ children[c] = <<>>
C7_Witness ==
    \E c \in Calls : pc[c] = "returned" /\ ~Known(c) /\ result[c].status = "error"

\* C8: language lookup is case-insensitive in execute_code and in
\* validate_code: each gives for a name what it gives for the lowered name.
C8_LookupCaseInsensitive ==
    \A c \in Calls :
        /\ pc[c] = "validated" =>
              vcall[c] = validate_code(args[c].code, Lower(args[c].language))
        /\ (InExecute(c) /\ pc[c] # "resolve") => language[c] = Lower(args[c].language)

\* C9: no exception leaves execute_code, and what it returns is a dictionary
\* with exactly the fields output, error, execution_time and status, the
\* status being one of the six of the enumeration.
C9_AlwaysAWellFormedResult ==
    \A c \in Calls :
        /\ pc[c] # "raised"
        /\ pc[c] = "returned" =>
              /\ DOMAIN result[c] = ResultFields
              /\ result[c].status \in Statuses
C9_Witness ==
    \E c \in Calls :
        /\ pc[c] = "returned" /\ raised[c] # NoneRecord
        /\ "mkdtemp_failed" \in Range(trace[c])
        /\ result[c].status = "error"

\* C10: after a low-level fault (mkdtemp, the source write or a spawn raising
\* OSError) the call spawns no further child and returns status 'error' with
\* the fault's message in its error text.
C10_LowLevelFaultIsError ==
    \A c \in Calls :
        (InExecute(c) /\ raised[c] # NoneRecord /\ raised[c].type = "OSError") =>
            /\ pc[c] \in {"finally", "returned"}
            /\ pc[c] = "returned" =>
                  /\ result[c].status = "error"
                  /\ result[c].error = "Execution error: " \o raised[c].msg
            /\ LastStep(c) \in {"mkdtemp_failed", "write_failed"} => children[c] = <<>>
            /\ LastStep(c) \notin {"mkdtemp_failed", "write_failed", "rmtree", "rmtree_failed"} =>
                  LastChild(c).outcome = "spawn_fault"
            /\ \A i \in DOMAIN children[c] :
                  children[c][i].outcome = "spawn_fault" => i = Len(children[c])
C10_Witness ==
    \E c \in Calls :
        /\ pc[c] = "returned" /\ children[c] # <<>>
        /\ LastChild(c).phase = "compile" /\ LastChild(c).outcome = "spawn_fault"
        /\ result[c].status = "error"

\* The code of the call has no `public class <Name>` anywhere.
NoPublicClass(c) == \A i \in 1..Len(args[c].code) : ~ClassAt(args[c].code, i).ok

\* C11: a java call whose code passes the validator but declares no public
\* class returns status 'error' with the message 'No public class found in
\* Java code'; no source file is ever written for it and no child process
\* (javac or java) is ever spawned.
C11_JavaWithoutPublicClassNeverWritten ==
    \A c \in Calls :
        (InExecute(c) /\ Key(c) = "java" /\ ValidatorAccepts(c) /\ NoPublicClass(c)) =>
            /\ files[c] = {}
            /\ children[c] = <<>>
            /\ file_path[c] = NoneRecord
            /\ pc[c] \notin {"write", "compile", "run", "raised"}
            /\ "write" \notin Range(trace[c])
            /\ (pc[c] = "returned" /\ raised[c] = NoneRecord) =>
                  /\ result[c].status = "error"
                  /\ result[c].error = "No public class found in Java code"
C11_Witness ==
    \E c \in Calls :
        /\ pc[c] = "returned" /\ Key(c) = "java" /\ NoPublicClass(c)
        /\ temp_dir[c] # NoneDir
        /\ result[c].error = "No public class found in Java code"

\* The children a call spawned for one phase.
ChildrenOf(c, phase) == {i \in DOMAIN children[c] : children[c][i].phase = phase}
\* A spawn that did not come back with exit code 0.
ChildFailed(ch) == ch.outcome # "exited" \/ ch.returncode # 0

\* C12: nothing is retried. A call spawns the compile child at most once and
\* the run child at most once, the compile child before the run child, and a
\* child that fails or times out is the last child of its call.
C12_NoPhaseIsRetried ==
    \A c \in Calls :
        /\ Cardinality(ChildrenOf(c, "compile")) <= 1
        /\ Cardinality(ChildrenOf(c, "run")) <= 1
        /\ \A i \in ChildrenOf(c, "compile"), j \in ChildrenOf(c, "run") : i < j
        /\ \A i \in DOMAIN children[c] :
              ChildFailed(children[c][i]) =>
                  /\ i = Len(children[c])
                  /\ pc[c] \in {"finally", "returned"}
C12_Witness ==
    \E c \in Calls :
        /\ pc[c] = "returned" /\ Len(children[c]) = 1
        /\ children[c][1].phase = "compile" /\ children[c][1].outcome = "timeout"
        /\ result[c].status = "timeout"

\* C13: the wall-clock timeout bounds compile and run together: the time the
\* child processes of one call have run, compile child and run child added up,
\* never exceeds the timeout (the slack is below one tick of the clock).
C13_TimeoutBoundsCompileAndRun ==
    \A c \in Calls : InExecute(c) => now[c] <= timeout

\* C14: when the timeout expires the whole process tree of the child is
\* terminated: at the moment execute_code returns status 'timeout' no process
\* started by a child of the call is alive (the child itself is killed and
\* reaped by subprocess.run), and the workspace directory has been removed.
C14_TimeoutKillsProcessTree ==
    \A c \in Calls :
        (pc[c] = "returned" /\ result[c].status = "timeout") =>
            /\ \A i \in DOMAIN children[c] : children[c][i].descendants = 0
            /\ temp_dir[c] \notin fs

\* The call owns a workspace: mkdtemp has given it one and its finally block
\* has not run yet.
HasWorkspace(c) ==
    /\ pc[c] \in {"source_file", "write", "compile", "run", "finally"}
    /\ temp_dir[c] # NoneDir
\* What a call went through, told without the name of its workspace.
OwnHistory(c) ==
    [args |-> args[c],
     outcomes |-> [i \in DOMAIN children[c] |->
                      [phase |-> children[c][i].phase, outcome |-> children[c][i].outcome,
                       returncode |-> children[c][i].returncode,
                       stdout |-> children[c][i].stdout, stderr |-> children[c][i].stderr]],
     start_time |-> start_time[c], now |-> now[c], raised |-> raised[c]]

\* C15: under any interleaving of execute_code calls on one CodeExecutor, no
\* two calls own the same workspace directory at the same time, the workspace
\* of a call exists until its own finally block removes it, the source file
\* and every child of a call are in that call's workspace, and two calls that
\* went through the same (same arguments, same outcomes of their own children,
\* same fault) return the same result whatever the other one was doing.
C15_ConcurrentCallsAreIsolated ==
    \A c \in Calls :
        /\ HasWorkspace(c) =>
              /\ temp_dir[c] \in fs
              /\ \A d \in Calls \ {c} : HasWorkspace(d) => temp_dir[d] # temp_dir[c]
        /\ file_path[c] # NoneRecord => file_path[c].dir = temp_dir[c]
        /\ \A i \in DOMAIN children[c] : children[c][i].cwd = temp_dir[c]
        /\ \A d \in Calls \ {c} :
              (pc[c] = "returned" /\ pc[d] = "returned" /\ OwnHistory(c) = OwnHistory(d)) =>
                  result[c] = result[d]
C15_Witness ==
    \E c \in Calls, d \in Calls :
        /\ pc[c] = "run" /\ pc[d] = "compile"
        /\ HasWorkspace(c) /\ HasWorkspace(d)
        /\ children[c] # <<>>

\* The calls that are in their compile or run phase.
Executing == {c \in Calls : pc[c] \in {"compile", "run"}}

C17_RegistryNeverChanges == language_config = LanguageConfig
C17_Witness ==
    \E c \in Calls :
        /\ pc[c] = "returned" /\ Len(children[c]) = 2
        /\ children[c][1].phase = "compile" /\ children[c][2].phase = "run"
        /\ language_config = LanguageConfig

\* C18: every child process a call lets run, the compile child as well as the
\* run child, runs under the same wall-clock timeout and with all four
\* resource ceilings (address space, CPU time, file size, process count) set
\* before it execs; no child runs with one of them missing.
C18_EveryChildRunsUnderAllLimits ==
    \A c \in Calls : \A i \in DOMAIN children[c] :
        children[c][i].started =>
            /\ children[c][i].timeout = timeout
            /\ children[c][i].limits = Range(Limits)

\* How programs name what they pull in, by the grammar of each language.
\* Python, after the first module of an import statement: `import a, b, c`.
RECURSIVE CommaList(_, _)
CommaList(s, e) ==
    LET a == SpaceRunEnd(s, e)
    IN  IF a <= Len(s) /\ s[a] = ","
        THEN LET b == SpaceRunEnd(s, a + 1)
                 f == WordRunEnd(s, b)
             IN  IF f > b THEN {SubSeq(s, b, f - 1)} \cup CommaList(s, f) ELSE {}
        ELSE {}
\* Python: the modules named by `import X[, Y...]` and `from X import`.
RECURSIVE PyNamedModules(_, _)
PyNamedModules(s, i) ==
    IF i > Len(s) THEN {}
    ELSE LET m == PyImportAt(s, i)
         IN  IF m.ok
             THEN {m.module}
                  \cup (IF LitAt(s, i, W_import) THEN CommaList(s, m.end) ELSE {})
                  \cup PyNamedModules(s, m.end)
             ELSE PyNamedModules(s, i + 1)
\* C and C++: the name between <> or "" of each #include, with or without
\* white space before it.
IncludeNameAt(s, i) ==
    IF LitAt(s, i, W_include)
    THEN LET b == SpaceRunEnd(s, i + Len(W_include))
             e == PathRunEnd(s, b + 1)
         IN  [ok |-> /\ b <= Len(s) /\ s[b] \in {"<", "\""}
                     /\ e > b + 1
                     /\ e <= Len(s) /\ s[e] \in {">", "\""},
              name |-> SubSeq(s, b + 1, e - 1)]
    ELSE [ok |-> FALSE, name |-> <<>>]
IncludeNames(s) == {IncludeNameAt(s, i).name : i \in {j \in 1..Len(s) : IncludeNameAt(s, j).ok}}
\* Go `import "x"`, Ruby `require 'x'`, PHP `dl('x')`: a keyword, white space
\* or an opening parenthesis, and a quoted name.
QuotedNameAt(s, i, keyword) ==
    IF LitAt(s, i, keyword)
    THEN LET a == SpaceRunEnd(s, i + Len(keyword))
             b == IF a <= Len(s) /\ s[a] = "(" THEN a + 1 ELSE a
             e == WordRunEnd(s, b + 1)
         IN  [ok |-> /\ b <= Len(s) /\ s[b] \in {"'", "\""}
                     /\ e > b + 1
                     /\ e <= Len(s) /\ s[e] = s[b],
              name |-> SubSeq(s, b + 1, e - 1)]
    ELSE [ok |-> FALSE, name |-> <<>>]
QuotedNames(s, keyword) ==
    {QuotedNameAt(s, i, keyword).name : i \in {j \in 1..Len(s) : QuotedNameAt(s, j, keyword).ok}}
\* Rust `use x::...`: the crate is the first segment of the path.
W_use == <<"u","s","e">>
W_dl == <<"d","l">>
CrateAt(s, i) ==
    IF LitAt(s, i, W_use)
    THEN LET a == i + Len(W_use)
             b == SpaceRunEnd(s, a)
             e == WordRunEnd(s, b)
         IN  [ok |-> b > a /\ e > b, name |-> SubSeq(s, b, e - 1)]
    ELSE [ok |-> FALSE, name |-> <<>>]
CrateNames(s) == {CrateAt(s, i).name : i \in {j \in 1..Len(s) : CrateAt(s, j).ok}}

\* What a program of a registry language names that its allow-list does not
\* hold. javascript and typescript carry a list of globals, not of things a
\* program pulls in, and name nothing here.
ForeignReferences(code, key) ==
    LET outside(names) == {n \in names : Str(n) \notin LanguageConfig[key].allowed}
    IN  CASE key = "python" -> outside(PyNamedModules(code, 1))
          [] key \in {"c", "cpp"} -> outside(IncludeNames(code))
          [] key = "java" ->
                {p \in Range(JavaImports(code, 1)) : ~AllowedJavaImport(p, LanguageConfig[key])}
          [] key = "go" -> outside(QuotedNames(code, W_import))
          [] key = "ruby" -> outside(QuotedNames(code, W_require))
          [] key = "php" -> outside(QuotedNames(code, W_dl))
          [] key = "rust" -> outside(CrateNames(code))
          [] OTHER -> {}

\* C19: for every language of the registry, a program that names an import,
\* header, package, crate, require or extension outside the language's
\* allow-list is invalid for validate_code, and execute_code returns
\* 'validation_error' for it without ever spawning a child.
C19_ForeignReferencesAreRejected ==
    \A c \in Calls :
        (args[c] # NoneRecord /\ Known(c) /\ ForeignReferences(args[c].code, Key(c)) # {}) =>
            /\ pc[c] = "validated" => vcall[c].status = "invalid"
            /\ InExecute(c) => children[c] = <<>>
            /\ (InExecute(c) /\ pc[c] = "returned") => result[c].status = "validation_error"

\* C20: import screening matches the policy kind. Python code is valid only
\* if every module an import statement names is in allowed_imports; C and C++
\* code only if every #include name is exactly an element of allowed_headers;
\* Java code only if every imported dotted path starts with an allowed package.
C20_ScreeningMatchesPolicyKind ==
    \A c \in Calls :
        (pc[c] = "validated" /\ Known(c) /\ vcall[c].status = "valid") =>
            LET code == args[c].code
                allowed == LanguageConfig[Key(c)].allowed
            IN  /\ Key(c) = "python" =>
                      \A m \in PyNamedModules(code, 1) : Str(m) \in allowed
                /\ Key(c) \in {"c", "cpp"} =>
                      \A h \in IncludeNames(code) : Str(h) \in allowed
                /\ Key(c) = "java" =>
                      \A p \in Range(JavaImports(code, 1)) :
                          \E pkg \in allowed :
                              /\ Len(pkg) <= Len(p)
                              /\ Str(SubSeq(p, 1, Len(pkg))) = pkg

\* The text holds one of the words as a substring.
HoldsOneOf(code, words) == \E w \in words : \E i \in 1..Len(code) : LitAt(code, i, w)

\* C21: deny-list screening does not depend on the imports. Python code that
\* holds 'eval', 'exec', 'os.system' or 'subprocess.call' as a substring, and
\* javascript or typescript code that holds 'process', 'require', 'eval' or
\* 'Function' as a substring, is invalid whatever it imports.
C21_DenyListedNamesAreInvalid ==
    \A c \in Calls :
        pc[c] = "validated" =>
            /\ (Str(args[c].language) = "python"
                  /\ HoldsOneOf(args[c].code, {W_eval, W_exec, W_os_system, W_subprocess_call}))
                  => vcall[c].status = "invalid"
            /\ (Str(args[c].language) \in {"javascript", "typescript"}
                  /\ HoldsOneOf(args[c].code, {W_process, W_require, W_eval, W_Function}))
                  => vcall[c].status = "invalid"
C21_Witness ==
    \E c \in Calls :
        /\ pc[c] = "validated" /\ Str(args[c].language) = "python"
        /\ args[c].code = Code_math_exec
        /\ vcall[c].errors = <<"Use of exec not allowed">>

\* C22: every result produced after the run child exited carries that child's
\* exit code, in a field of its own next to output, error, execution_time and
\* status; when the exit code is not zero it carries the captured stderr too.
C22_ResultCarriesExitCode ==
    \A c \in Calls :
        (pc[c] = "returned" /\ RunExited(c)) =>
            /\ \E f \in DOMAIN result[c] \ ResultFields :
                  result[c][f] = LastChild(c).returncode
            /\ LastChild(c).returncode # 0 => result[c].error = LastChild(c).stderr

\* C23: when the run child is killed by the operating system (it ends on a
\* signal: negative returncode), as happens to a program that exceeds the
\* memory ceiling, execute_code returns, and the status it returns is
\* 'runtime_error' or 'error', never 'success'.
C23_KilledChildIsNotSuccess ==
    \A c \in Calls :
        (InExecute(c) /\ RunExited(c) /\ LastChild(c).returncode < 0) =>
            /\ pc[c] \in {"finally", "returned"}
            /\ pending[c].kind = "return"
            /\ pending[c].value.status \in {"runtime_error", "error"}
            /\ pc[c] = "returned" => result[c].status \in {"runtime_error", "error"}
C23_Witness ==
    \E c \in Calls :
        /\ pc[c] = "returned" /\ RunExited(c)
        /\ LastChild(c).returncode = -9
        /\ "RLIMIT_AS" \in LastChild(c).limits
        /\ result[c].status = "error"

\* C24: every execute_code call that has started returns a result in the
\* end: no step of it (source write, compile wait, run wait, output capture,
\* cleanup) lasts forever, even when the program submitted never exits.
C24_EveryCallReturns ==
    \A c \in Calls : (pc[c] = "resolve") ~> (pc[c] = "returned")
C24_Witness ==
    \E c \in Calls :
        /\ pc[c] = "returned" /\ children[c] # <<>>
        /\ LastChild(c).phase = "run" /\ LastChild(c).outcome = "timeout"
        /\ now[c] >= timeout
        /\ result[c].status = "timeout"

\* The place of a step in the order of execute_code.
StepRank(name) ==
    CASE name = "resolve" -> 1
      [] name = "validate" -> 2
      [] name \in {"mkdtemp", "mkdtemp_failed"} -> 3
      [] name \in {"write", "write_failed"} -> 4
      [] name = "compile" -> 5
      [] name = "run" -> 6
      [] name \in {"rmtree", "rmtree_failed"} -> 7
\* The steps that may come right after a step.
MayFollow(c, a, b) ==
    CASE a = "resolve" -> b = "validate"
      [] a = "validate" -> b \in {"mkdtemp", "mkdtemp_failed"}
      [] a = "mkdtemp" -> b \in {"write", "write_failed", "rmtree", "rmtree_failed"}
      [] a = "write" -> b = (IF NeedsCompile(c) THEN "compile" ELSE "run")
      [] a = "compile" -> b \in {"run", "rmtree", "rmtree_failed"}
      [] a \in {"write_failed", "run"} -> b \in {"rmtree", "rmtree_failed"}
      [] OTHER -> FALSE

\* C25: the steps of a call come in the fixed order language resolution,
\* validation, workspace creation, source-file write, compile (exactly for the
\* languages with needs_compile), run, teardown. A child is spawned only at
\* the compile and run steps; the result is settled before the teardown, and
\* the teardown comes after the last child has come back and before the
\* result reaches the caller.
C25_StepsInFixedOrder ==
    \A c \in Calls :
        /\ \A i \in DOMAIN trace[c], j \in DOMAIN trace[c] :
              i < j => StepRank(trace[c][i]) < StepRank(trace[c][j])
        /\ trace[c] # <<>> => trace[c][1] = "resolve"
        /\ \A i \in 1..(Len(trace[c]) - 1) : MayFollow(c, trace[c][i], trace[c][i + 1])
        /\ Len(children[c]) = Cardinality({i \in DOMAIN trace[c] : trace[c][i] \in {"compile", "run"}})
        /\ pc[c] = "finally" => /\ pending[c] # NoneRecord
                                /\ LastStep(c) \notin {"rmtree", "rmtree_failed"}
        /\ (InExecute(c) /\ trace[c] # <<>> /\ LastStep(c) \in {"rmtree", "rmtree_failed"}) =>
              /\ pc[c] = "returned"
              /\ result[c] = pending[c].value
        /\ (pc[c] = "returned" /\ temp_dir[c] # NoneDir) =>
              LastStep(c) \in {"rmtree", "rmtree_failed"}
C25_Witness ==
    \E c \in Calls :
        /\ pc[c] = "returned"
        /\ trace[c] = <<"resolve", "validate", "mkdtemp", "write", "compile", "run", "rmtree">>
        /\ result[c].status = "success"

\* The identifier of the first 'public class' declaration of a text.
FirstPublicClass(code) ==
    LET first == CHOOSE i \in 1..Len(code) :
                    /\ ClassAt(code, i).ok
                    /\ \A j \in 1..(i - 1) : ~ClassAt(code, j).ok
    IN  Str(ClassAt(code, first).name)
\* The name the source file of a call ought to have.
ExpectedSourceName(c) ==
    IF Key(c) = "java"
    THEN FirstPublicClass(args[c].code) \o ".java"
    ELSE "main" \o LanguageConfig[Key(c)].extension
\* What the files of a working directory are, the compiler's output aside.
SourceFiles(c) == files[c] \ {Artifact(language[c], n) : n \in files[c]}

\* C26: the working directory of a call holds exactly one source file from
\* the write on until the teardown, and never another; it is named 'main'
\* plus the language's extension, and for java '<Name>.java', Name being the
\* identifier of the first 'public class' declaration of the code; the java
\* run command is `java Name` with that same Name.
C26_OneSourceFileNamedForLanguage ==
    \A c \in Calls :
        (InExecute(c) /\ file_path[c] # NoneRecord) =>
            /\ file_path[c].name = ExpectedSourceName(c)
            /\ file_path[c].dir = temp_dir[c]
            /\ SourceFiles(c) \subseteq {file_path[c].name}
            /\ ("write" \in Range(trace[c]) /\ "rmtree" \notin Range(trace[c])) =>
                  SourceFiles(c) = {file_path[c].name}
            /\ \A i \in ChildrenOf(c, "run") :
                  Key(c) = "java" =>
                      children[c][i].cmd = <<"java", FirstPublicClass(args[c].code)>>
            /\ \A i \in ChildrenOf(c, "compile") :
                  children[c][i].cmd[Len(children[c][i].cmd)] = file_path[c].name
C26_Witness ==
    \E c \in Calls :
        /\ pc[c] = "finally" /\ Key(c) = "java"
        /\ args[c].code = Code_two_classes
        /\ files[c] = {"A.java", "<class files>"}
        /\ children[c] # <<>> /\ LastChild(c).phase = "run"
        /\ LastChild(c).cmd = <<"java", "A">>

\* A call made with a registry language written in lower case.
LowercaseRegistryLanguage(c) ==
    /\ args[c].language = Lower(args[c].language)
    /\ Str(args[c].language) \in DOMAIN LanguageConfig

\* C27: the two entry points agree. For a lowercase registry language,
\* execute_code returns status 'validation_error' exactly when validate_code,
\* asked about the same code and language, returns status 'invalid', and then
\* the error text of the former is the one entry of the latter's errors list;
\* the errors list of validate_code is empty exactly when its status is
\* 'valid', and holds one entry otherwise.
C27_ExecuteAgreesWithValidate ==
    \A c \in Calls :
        /\ (InExecute(c) /\ pc[c] = "returned" /\ LowercaseRegistryLanguage(c)) =>
              LET v == validate_code(args[c].code, args[c].language)
              IN  /\ result[c].status = "validation_error" <=> v.status = "invalid"
                  /\ result[c].status = "validation_error" => v.errors = <<result[c].error>>
        /\ pc[c] = "validated" =>
              /\ vcall[c].status \in {"valid", "invalid"}
              /\ vcall[c].errors = <<>> <=> vcall[c].status = "valid"
              /\ Len(vcall[c].errors) <= 1
C27_Witness ==
    \E c \in Calls :
        /\ pc[c] = "returned" /\ LowercaseRegistryLanguage(c)
        /\ args[c].code = Code_import_os /\ Key(c) = "python"
        /\ result[c].status = "validation_error"
        /\ validate_code(args[c].code, args[c].language).errors = <<result[c].error>>

\* C28: a failure of the removal of the working directory is contained. The
\* step out of the finally block hands the caller the very result the try and
\* except branches left pending, also when the removal failed, and the call
\* returns: no exception comes out of execute_code.
C28_CleanupFailureIsContained ==
    [][\A c \in Calls :
          (pc[c] = "finally" /\ pc'[c] # "finally") =>
              /\ pc'[c] = "returned"
              /\ pending[c].kind = "return"
              /\ result'[c] = pending[c].value
              /\ pending'[c] = pending[c]
              /\ trace'[c] # trace[c] =>
                    trace'[c][Len(trace'[c])] \in {"rmtree", "rmtree_failed"}]_vars
C28_Witness ==
    \E c \in Calls :
        /\ pc[c] = "returned" /\ LastStep(c) = "rmtree_failed"
        /\ temp_dir[c] \in fs
        /\ result[c] = pending[c].value
        /\ result[c].status = "success"

\* C29 as claimed: for each api key, the requests the limiter admits within
\* any stretch of time shorter than the window are at most RATE_LIMIT,
\* whatever the arrival times and the mix of keys.
C29_AtMostRateLimitPerWindow ==
    \A k \in ApiKeys : Len(recent[k]) <= RATE_LIMIT

\* C30: no key is locked out for good. The stored count of a key never
\* exceeds RATE_LIMIT, and a key whose last request was turned away with 429
\* is admitted by the first request it sends after the reset_time of the
\* window it was turned away under, that is, more than a window after that
\* window started.
C30_RejectedKeyIsAdmittedAfterWindow ==
    [][\A k \in ApiKeys :
          /\ k \in DOMAIN rate_limit_store' => rate_limit_store'[k].count <= RATE_LIMIT
          /\ (/\ verdict[k].status = "429"
              /\ wall_clock > locked_until[k]
              /\ verdict'[k].turn # verdict[k].turn) =>
                 /\ verdict'[k].status = "admitted"
                 /\ rate_limit_store'[k].count = 1]_vars
C30_Witness ==
    \E k \in ApiKeys :
        /\ locked_until[k] # NoneTime
        /\ wall_clock = locked_until[k] + 1
        /\ verdict[k].status = "admitted"
        /\ k \in DOMAIN rate_limit_store
        /\ rate_limit_store[k] = [count |-> 1, reset_time |-> wall_clock + Minute]
        /\ recent[k] = <<wall_clock>>
====
